---- MODULE Spec2Model ----
(***************************************************************************)
(* TaskMaster: the command parser (command.rs), the wire codec the client  *)
(* and the daemon share (serde_json over the Command enum), and the        *)
(* daemon's connection handling on its thread pool (server.rs,             *)
(* threadpool.rs).                                                         *)
(*                                                                         *)
(* The specifications of the module:                                       *)
(*   SpecClient  the client's prompt loop: a line is split into tokens,    *)
(*               parsed by Command::try_from and, when it is a command     *)
(*               other than Exit, serialized;                              *)
(*   SpecCodec   serde_json::to_string followed by serde_json::from_str    *)
(*               on every Command value;                                   *)
(*   Spec        the daemon: the accept loop, the thread pool's workers    *)
(*               and handle_connection, against arbitrary clients          *)
(*               (LiveSpec: with fair scheduling);                         *)
(*   SpecHandler one connection, any command, any configuration;           *)
(*   SpecPool    the ThreadPool on its own, with jobs that return          *)
(*               (LivePool: with fair scheduling);                         *)
(*   SpecPanic   the ThreadPool with jobs that may panic (LivePanic);      *)
(*   SpecMain    the prompt loop and the parser of main.rs.                *)
(***************************************************************************)
EXTENDS Integers, Sequences, FiniteSets

\* Most tokens on one input line (the verb included).
MaxArgs == 3
\* Most targets of a Command value handed to the codec.
MaxTargets == 2
\* Most connections the clients open in one run of the daemon.
MaxConns == 2
\* Largest size handed to ThreadPool::new when the pool is checked on its own.
MaxSize == 3
\* Most jobs handed to ThreadPool::execute when the pool is checked on its own.
MaxJobs == 3
\* server.rs: const NUM_THREADS: usize = 4
NUM_THREADS == 4

VARIABLES
    \* the client's prompt loop
    cliPc,      \* "prompt" | "parse" | "match" | "history" | "done" ("off" outside SpecClient)
    args,       \* the tokens of the line read at the prompt
    res,        \* the Result of Command::try_from(&args[..])
    cliWire,    \* the message the client serialized for this line
    \* the codec
    codecPc,    \* "ser" | "de" | "end" ("off" outside SpecCodec)
    cmd,        \* the Command value handed to serde_json::to_string
    wire,       \* its serialized form
    dec,        \* the Result of serde_json::from_str on it
    \* the daemon
    backlog,    \* connections established and not yet yielded by incoming()
    chan,       \* the pool's mpsc channel: the Messages sent and not received
    mutex,      \* the worker holding the receiver's Mutex, 0 when free
    poisoned,   \* whether that Mutex is poisoned
    wpc,        \* each worker's position
    wjob,       \* the connection of the job a worker runs, 0 when none
    conn,       \* each connection, both ends
    children,   \* the live child processes of the daemon, per configured program
    \* the thread that owns the ThreadPool
    owner,      \* its position, the size it asked for, what it sent and joined
    runs        \* how many times each job it handed to execute has been run

clientVars == <<cliPc, args, res, cliWire>>
codecVars == <<codecPc, cmd, wire, dec>>
poolVars == <<chan, mutex, poisoned, wpc, wjob>>
ownerVars == <<owner, runs>>
daemonVars == <<backlog, chan, mutex, poisoned, wpc, wjob, conn, children, owner, runs>>
vars == <<cliPc, args, res, cliWire, codecPc, cmd, wire, dec,
          backlog, chan, mutex, poisoned, wpc, wjob, conn, children, owner, runs>>

(***************************************************************************)
(* command.rs: Command and ParsingError                                    *)
(***************************************************************************)

\* The variants of Command that carry a Vec<String>.
TargetVariants ==
    {"Add", "Clear", "Pid", "Remove", "Restart", "Start", "Status", "Stop", "Update"}

\* The unit variants of Command.
UnitVariants == {"Exit", "ReRead"}

\* A Command value: a unit variant has no payload (kept as the empty list).
Cmd(v, ts) == [variant |-> v, payload |-> ts]

NoCmd == [variant |-> "-", payload |-> <<>>]

\* A ParsingError value; only UnknownCommand carries a String.
PErr(k, s) == [kind |-> k, arg |-> s]

NoErr == [kind |-> "-", arg |-> ""]

\* Result<Command, ParsingError>
Ok(c) == [tag |-> "Ok", cmd |-> c, err |-> NoErr]

Err(e) == [tag |-> "Err", cmd |-> NoCmd, err |-> e]

NoResult == [tag |-> "-", cmd |-> NoCmd, err |-> NoErr]

\* $args[1..].iter().map(|s| s.to_string()).collect::<Vec<String>>()
RestFromVerb(a) == SubSeq(a, 1, Len(a))

Rest(a) == SubSeq(a, 2, Len(a))

\* create_command!(args, name, zero_args)
ZeroArgsLenOff(a, name) ==
    IF Len(a) >= 1 THEN Ok(Cmd(name, <<>>)) ELSE Err(PErr("UnexpectedArguments", ""))

ZeroArgs(a, name) ==
    IF Len(a) = 1 THEN Ok(Cmd(name, <<>>)) ELSE Err(PErr("UnexpectedArguments", ""))

\* create_command!(args, name, multiple_args)
MultipleArgsLenOff(a, name) ==
    IF Len(a) >= 1 THEN Ok(Cmd(name, Rest(a))) ELSE Err(PErr("MissingArguments", ""))

MultipleArgs(a, name) ==
    IF Len(a) > 1 THEN Ok(Cmd(name, Rest(a))) ELSE Err(PErr("MissingArguments", ""))

\* create_command!(args, name, unspecified)
UnspecifiedAsMultiple(a, name) ==
    IF Len(a) > 1 THEN Ok(Cmd(name, Rest(a))) ELSE Err(PErr("MissingArguments", ""))

Unspecified(a, name) == Ok(Cmd(name, Rest(a)))

\* try_from's arm for args.get(0) == None
EmptyArmAsMissing == Err(PErr("MissingArguments", ""))

EmptyArm == Err(PErr("EmptyCommand", ""))

\* try_from's catch-all arm: other => Err(UnknownCommand(other.into()))
OtherArmFormatted(other) == Err(PErr("UnknownCommand", "Unknown command: " \o other))

OtherArm(other) == Err(PErr("UnknownCommand", other))

\* The arm of try_from's match a first token selects.
MatchArm(a, command) ==
    CASE command = "add" -> MultipleArgs(a, "Add")
      [] command = "clear" -> MultipleArgs(a, "Clear")
      [] command = "exit" -> ZeroArgs(a, "Exit")
      [] command = "pid" -> Unspecified(a, "Pid")
      [] command = "remove" -> MultipleArgs(a, "Remove")
      [] command = "reread" -> ZeroArgs(a, "ReRead")
      [] command = "restart" -> MultipleArgs(a, "Restart")
      [] command = "start" -> MultipleArgs(a, "Start")
      [] command = "status" -> Unspecified(a, "Status")
      [] command = "stop" -> MultipleArgs(a, "Stop")
      [] command = "update" -> MultipleArgs(a, "Update")
      [] OTHER -> OtherArm(command)

\* impl TryFrom<&[&str]> for Command
TryFrom(a) == IF Len(a) = 0 THEN EmptyArm ELSE MatchArm(a, a[1])

(***************************************************************************)
(* The wire codec: #[derive(Serialize, Deserialize)] on Command, with no   *)
(* serde attribute, read and written by serde_json.  A message is the      *)
(* sequence of its JSON lexemes (white space between lexemes carries no    *)
(* meaning and is left out).                                               *)
(***************************************************************************)

\* A punctuation lexeme: { } [ ] : ,
P(s) == [t |-> "punct", v |-> s]

\* A string literal, held by its content.
S(s) == [t |-> "string", v |-> s]

\* The literal null.
Null == [t |-> "null", v |-> ""]

RECURSIVE Elems(_)
\* The elements of a JSON array of strings, separated by commas.
Elems(ts) ==
    IF Len(ts) = 0 THEN <<>>
    ELSE IF Len(ts) = 1 THEN <<S(ts[1])>>
    ELSE <<S(ts[1]), P(",")>> \o Elems(Tail(ts))

\* serde_json's form of a Vec<String>
ArrayOf(ts) == <<P("[")>> \o Elems(ts) \o <<P("]")>>

\* An adjacently tagged form, as #[serde(tag = "type", content = "targets")] writes.
ToStringAdjacent(c) ==
    IF c.variant \in UnitVariants
    THEN <<P("{"), S("type"), P(":"), S(c.variant), P("}")>>
    ELSE <<P("{"), S("type"), P(":"), S(c.variant), P(","), S("targets"), P(":")>>
         \o ArrayOf(c.payload) \o <<P("}")>>

\* A serializer that writes a unit variant as a map with an empty list.
ToStringUnitAsMap(c) ==
    <<P("{"), S(c.variant), P(":")>> \o ArrayOf(c.payload) \o <<P("}")>>

\* serde_json::to_string(&command): serde's default, externally tagged, form.
\* A unit variant is the string of its name; a newtype variant is a map with
\* one key, its name, holding the payload.
ToString(c) ==
    IF c.variant \in UnitVariants
    THEN <<S(c.variant)>>
    ELSE <<P("{"), S(c.variant), P(":")>> \o ArrayOf(c.payload) \o <<P("}")>>

\* serde_json::Error
DecodeError == Err(PErr("serde_json::Error", ""))

\* Whether lexemes are a JSON array of strings.
IsStringArray(w) ==
    /\ Len(w) >= 2
    /\ w[1] = P("[")
    /\ w[Len(w)] = P("]")
    /\ \/ Len(w) = 2
       \/ /\ Len(w) % 2 = 1
          /\ \A i \in 2..(Len(w) - 1) :
                IF i % 2 = 0 THEN w[i].t = "string" ELSE w[i] = P(",")

\* The Vec<String> a JSON array of strings holds.
ArrayItems(w) == [i \in 1..((Len(w) - 1) \div 2) |-> w[2 * i].v]

\* Deserialize for Vec<String>, then Command's variant built on it.
NewtypeVariant(v, value) ==
    IF IsStringArray(value) THEN Ok(Cmd(v, ArrayItems(value))) ELSE DecodeError

\* A unit variant met as a map's key takes the value null.
UnitVariantInMap(v, value) ==
    IF value = <<Null>> THEN Ok(Cmd(v, <<>>)) ELSE DecodeError

\* serde_json::from_str::<Command>(text)
FromStr(w) ==
    IF Len(w) = 1 /\ w[1].t = "string"
    THEN IF w[1].v \in UnitVariants THEN Ok(Cmd(w[1].v, <<>>)) ELSE DecodeError
    ELSE IF /\ Len(w) >= 5
            /\ w[1] = P("{")
            /\ w[2].t = "string"
            /\ w[3] = P(":")
            /\ w[Len(w)] = P("}")
         THEN IF w[2].v \in TargetVariants
              THEN NewtypeVariant(w[2].v, SubSeq(w, 4, Len(w) - 1))
              ELSE IF w[2].v \in UnitVariants
                   THEN UnitVariantInMap(w[2].v, SubSeq(w, 4, Len(w) - 1))
                   ELSE DecodeError
         ELSE DecodeError

(***************************************************************************)
(* The client's prompt loop (client.rs, run)                               *)
(***************************************************************************)

\* The verbs of the command grammar.
Verbs ==
    {"add", "clear", "exit", "pid", "remove", "reread", "restart", "start",
     "status", "stop", "update"}

\* Tokens a line is made of: the verbs, program names, and words that are no verb.
Tokens == Verbs \cup {"cat", "nginx", "addd", "42", "Exit"}

\* line.split_ascii_whitespace().collect::<Vec<&str>>(): every token sequence
\* of at most MaxArgs tokens; a blank line gives the empty one.
Lines == UNION {[1..n -> Tokens] : n \in 0..MaxArgs}

ClientIdle ==
    /\ cliPc = "off"
    /\ args = <<>>
    /\ res = NoResult
    /\ cliWire = <<>>

ClientInit ==
    /\ cliPc = "prompt"
    /\ args = <<>>
    /\ res = NoResult
    /\ cliWire = <<>>

\* con.read_line(..)? then split_ascii_whitespace
ReadLine ==
    /\ cliPc = "prompt"
    /\ args' \in Lines
    /\ cliPc' = "parse"
    /\ UNCHANGED <<res, cliWire>>
    /\ UNCHANGED <<codecVars, daemonVars>>

\* read_line fails (end of input): run returns Err through `?`
ReadLineFails ==
    /\ cliPc = "prompt"
    /\ cliPc' = "done"
    /\ UNCHANGED <<args, res, cliWire>>
    /\ UNCHANGED <<codecVars, daemonVars>>

\* let cmd = Command::try_from(&args[..]);
Parse ==
    /\ cliPc = "parse"
    /\ res' = TryFrom(args)
    /\ cliPc' = "match"
    /\ UNCHANGED <<args, cliWire>>
    /\ UNCHANGED <<codecVars, daemonVars>>

\* The first arm of run's match: Ok(Command::Exit) => break
ExitArmMissing(r) == FALSE

ExitArm(r) == r.tag = "Ok" /\ r.cmd.variant = "Exit"

\* match cmd { Ok(Command::Exit) => break, Ok(command) => .., Err(e) => e.display() }
Match ==
    /\ cliPc = "match"
    /\ IF ExitArm(res)
       THEN cliPc' = "done" /\ cliWire' = cliWire
       ELSE IF res.tag = "Ok"
            THEN cliPc' = "history" /\ cliWire' = ToString(res.cmd)
            ELSE cliPc' = "history" /\ cliWire' = cliWire
    /\ UNCHANGED <<args, res>>
    /\ UNCHANGED <<codecVars, daemonVars>>

\* con.history.push(line.into()), and the loop goes back to the prompt
History ==
    /\ cliPc = "history"
    /\ cliPc' = "prompt"
    /\ args' = <<>>
    /\ res' = NoResult
    /\ cliWire' = <<>>
    /\ UNCHANGED <<codecVars, daemonVars>>

ClientNext ==
    \/ ReadLine
    \/ ReadLineFails
    \/ Parse
    \/ Match
    \/ History

(***************************************************************************)
(* The codec on its own: to_string, then from_str on what it wrote         *)
(***************************************************************************)

\* Names a target list is made of; one is a variant's name.
TargetNames == {"cat", "nginx", "Exit"}

TargetLists == UNION {[1..n -> TargetNames] : n \in 0..MaxTargets}

\* Every constructible Command with at most MaxTargets targets.
Commands ==
    {Cmd(v, ts) : v \in TargetVariants, ts \in TargetLists}
        \cup {Cmd(v, <<>>) : v \in UnitVariants}

CodecIdle ==
    /\ codecPc = "off"
    /\ cmd = NoCmd
    /\ wire = <<>>
    /\ dec = NoResult

CodecInit ==
    /\ codecPc = "ser"
    /\ cmd \in Commands
    /\ wire = <<>>
    /\ dec = NoResult

\* client.rs: serde_json::to_string(&command)
Serialize ==
    /\ codecPc = "ser"
    /\ wire' = ToString(cmd)
    /\ codecPc' = "de"
    /\ UNCHANGED <<cmd, dec>>
    /\ UNCHANGED <<clientVars, daemonVars>>

\* server.rs: serde_json::from_str(..) on the bytes of the message
Deserialize ==
    /\ codecPc = "de"
    /\ dec' = FromStr(wire)
    /\ codecPc' = "end"
    /\ UNCHANGED <<cmd, wire>>
    /\ UNCHANGED <<clientVars, daemonVars>>

\* The next Command value.
CodecAgain ==
    /\ codecPc = "end"
    /\ cmd' \in Commands
    /\ wire' = <<>>
    /\ dec' = NoResult
    /\ codecPc' = "ser"
    /\ UNCHANGED <<clientVars, daemonVars>>

CodecNext ==
    \/ Serialize
    \/ Deserialize
    \/ CodecAgain

(***************************************************************************)
(* The daemon (server.rs, threadpool.rs) and the clients' ends of the      *)
(* connections                                                             *)
(***************************************************************************)

\* ThreadPool::new(NUM_THREADS): for id in 0..size { workers.push(Worker::new(..)) }
WorkersOneMore == 1..(NUM_THREADS + 1)

Workers == 1..NUM_THREADS

Conns == 1..MaxConns

\* stream.write_all(b"Your program is running ok.")
Response == "Your program is running ok."

\* What a client may write on a connection: commands as serde_json writes them
\* (two on the same target, and Exit), and a message in the {"type": ..} form.
WireInputs ==
    { ToString(Cmd("Start", <<"cat">>)),
      ToString(Cmd("Stop", <<"cat">>)),
      ToString(Cmd("Exit", <<>>)),
      <<P("{"), S("type"), P(":"), S("ReRead"), P("}")>> }

\* The programs of the configuration file (config.rs: Config::programs).
Programs == {"cat", "nginx"}

\* enum Message { NewJob(Job), Terminate }; the job is handle_connection on c.
NewJob(c) == [kind |-> "NewJob", stream |-> c]

Terminate == [kind |-> "Terminate", stream |-> 0]

\* A connection nobody has opened.
NoConn ==
    [cli |-> "none",    \* the client's end: "none" | "open" | "gone"
     sent |-> <<>>,     \* what the client wrote
     srv |-> "none",    \* the daemon's end: "none" | "backlog" | "queued" | "closed"
     rd |-> "-",        \* how stream.read ended: "-" | "data" | "eof" | "err"
     got |-> <<>>,      \* buf[..bytes]
     out |-> <<>>,      \* the messages the daemon wrote
     reads |-> 0,       \* the calls of stream.read the daemon made on it
     hres |-> "-"]      \* handle_connection's Result: "-" | "Ok" | "ErrDeserialize" | "ErrWrite"

\* server.rs, run: the main thread builds the pool with NUM_THREADS workers and
\* keeps it for ever: its loop over listener.incoming() never ends.
OwnerInDaemon ==
    [pc |-> "serving", size |-> NUM_THREADS, submitted |-> 0, terms |-> 0, joined |-> 0]

DaemonInit ==
    /\ owner = OwnerInDaemon
    /\ runs = <<>>
    /\ backlog = <<>>
    /\ chan = <<>>
    /\ mutex = 0
    /\ poisoned = FALSE
    /\ wpc = [w \in Workers |-> "lock"]
    /\ wjob = [w \in Workers |-> 0]
    /\ conn = [c \in Conns |-> NoConn]
    /\ children = [p \in Programs |-> 0]

\* TcpStream::connect: connections are opened in the order of their numbers.
Connect(c) ==
    /\ conn[c].cli = "none"
    /\ IF c = 1 THEN TRUE ELSE conn[c - 1].cli # "none"
    /\ conn' = [conn EXCEPT ![c].cli = "open", ![c].srv = "backlog"]
    /\ backlog' = Append(backlog, c)
    /\ UNCHANGED <<poolVars, children>>
    /\ UNCHANGED <<clientVars, codecVars, ownerVars>>

\* stream.write(message.as_bytes()): a client writes one message.
Send(c, m) ==
    /\ conn[c].cli = "open"
    /\ conn[c].sent = <<>>
    /\ conn[c].srv # "closed"
    /\ conn' = [conn EXCEPT ![c].sent = m]
    /\ UNCHANGED <<backlog, poolVars, children>>
    /\ UNCHANGED <<clientVars, codecVars, ownerVars>>

\* The client drops its stream, or dies, while the daemon still holds its end.
Leave(c) ==
    /\ conn[c].cli = "open"
    /\ conn[c].srv # "closed"
    /\ conn' = [conn EXCEPT ![c].cli = "gone"]
    /\ UNCHANGED <<backlog, poolVars, children>>
    /\ UNCHANGED <<clientVars, codecVars, ownerVars>>

\* Whether a worker thread still holds the Arc of the channel's Receiver.
ReceiverAlive == \E w \in Workers : wpc[w] \notin {"terminated", "panicked"}

\* ThreadPool::execute on a live pool: the channel after
\* self.sender.send(Message::NewJob(Box::new(f))); the channel has no capacity limit.
PoolExecuteUnlessBusy(ch, c) == IF ch = <<>> THEN Append(ch, NewJob(c)) ELSE ch

PoolExecuteInFront(ch, c) == <<NewJob(c)>> \o ch

PoolExecuteTwice(ch, c) == Append(Append(ch, NewJob(c)), NewJob(c))

PoolExecute(ch, c) == Append(ch, NewJob(c))

\* server.rs, run: one turn of `for stream in listener.incoming()` on Ok(tcp_stream),
\* with ThreadPool::execute: sender.send(Message::NewJob(job)).  When send fails the
\* job is dropped, and the stream it owns with it.  (The Err(e) arm prints and changes
\* nothing.)
Accept ==
    /\ backlog # <<>>
    /\ backlog' = Tail(backlog)
    /\ IF ReceiverAlive
       THEN /\ chan' = PoolExecute(chan, Head(backlog))
            /\ conn' = [conn EXCEPT ![Head(backlog)].srv = "queued"]
       ELSE /\ chan' = chan
            /\ conn' = [conn EXCEPT ![Head(backlog)].srv = "closed"]
    /\ UNCHANGED <<mutex, poisoned, wpc, wjob, children>>
    /\ UNCHANGED <<clientVars, codecVars, ownerVars>>

\* Worker::new: let lock = match receiver.lock() { Ok(lock) => lock, Err(e) => continue }
\* The guard is bound to `lock`, which lives to the end of the loop's body.
Lock(w) ==
    /\ wpc[w] = "lock"
    /\ mutex = 0
    /\ IF poisoned
       THEN UNCHANGED <<mutex, wpc>>
       ELSE mutex' = w /\ wpc' = [wpc EXCEPT ![w] = "recv"]
    /\ UNCHANGED <<backlog, chan, poisoned, wjob, conn, children>>
    /\ UNCHANGED <<clientVars, codecVars, ownerVars>>

\* Worker::new: lock.recv(), then match message { NewJob(job) => job(), Terminate => break }
Recv(w) ==
    /\ wpc[w] = "recv"
    /\ chan # <<>>
    /\ chan' = Tail(chan)
    /\ IF Head(chan).kind = "NewJob"
       THEN /\ wpc' = [wpc EXCEPT ![w] = "read"]
            /\ wjob' = [wjob EXCEPT ![w] = Head(chan).stream]
            /\ mutex' = mutex
       ELSE /\ wpc' = [wpc EXCEPT ![w] = "terminated"]
            /\ wjob' = wjob
            /\ mutex' = 0
    /\ UNCHANGED <<backlog, poisoned, conn, children>>
    /\ UNCHANGED <<clientVars, codecVars, ownerVars>>

\* handle_connection: what follows from_str(..).map_err(..)? for a decoded Result
AfterDecodeIgnoreErr(r) == "write"

AfterDecodeUnwrap(r) == IF r.tag = "Ok" THEN "write" ELSE "panic"

AfterDecode(r) == IF r.tag = "Ok" THEN "write" ELSE "ret"

\* handle_connection, between from_str and write_all: "// Execute the command
\* here." and nothing else.  The result is what executing command c leaves of the
\* daemon: its child processes, and whether the daemon's process exits.
ExecuteExitEnds(c, ch) == [children |-> ch, exit |-> c.variant = "Exit"]

ExecuteStartSpawns(c, ch) ==
    [children |-> [p \in DOMAIN ch |->
                      IF c.variant = "Start" /\ \E i \in 1..Len(c.payload) : c.payload[i] = p
                      THEN ch[p] + 1 ELSE ch[p]],
     exit |-> FALSE]

Execute(c, ch) == [children |-> ch, exit |-> FALSE]

\* The command of a decoded Result executed; a Result that is an Err executes
\* nothing.
Executed(r) ==
    IF r.tag = "Ok" THEN Execute(r.cmd, children) ELSE [children |-> children, exit |-> FALSE]

\* Where the worker stands after the read, the decoding and the execution.
NextStep(r) == IF Executed(r).exit THEN "exit" ELSE AfterDecode(r)

\* handle_connection: stream.read(&mut buf) returned Ok(bytes), and buf[..bytes] is
\* decoded.  A panic unwinds the worker's thread: the stream is dropped and the
\* guard's drop poisons the Mutex.  A process that exits ends every thread.
ReadOk(w, c, buf) ==
    /\ conn' = [conn EXCEPT
                   ![c].rd = IF Len(buf) = 0 THEN "eof" ELSE "data",
                   ![c].got = buf,
                   ![c].reads = @ + 1,
                   ![c].hres = IF FromStr(buf).tag = "Ok" THEN @ ELSE "ErrDeserialize",
                   ![c].srv = IF NextStep(FromStr(buf)) \in {"panic", "exit"}
                              THEN "closed" ELSE @]
    /\ children' = Executed(FromStr(buf)).children
    /\ CASE NextStep(FromStr(buf)) = "panic" ->
              /\ wpc' = [wpc EXCEPT ![w] = "panicked"]
              /\ wjob' = [wjob EXCEPT ![w] = 0]
              /\ mutex' = 0
              /\ poisoned' = TRUE
         [] NextStep(FromStr(buf)) = "exit" ->
              /\ wpc' = [v \in Workers |-> "terminated"]
              /\ wjob' = [v \in Workers |-> 0]
              /\ mutex' = 0
              /\ poisoned' = poisoned
         [] OTHER ->
              /\ wpc' = [wpc EXCEPT ![w] = NextStep(FromStr(buf))]
              /\ UNCHANGED <<wjob, mutex, poisoned>>

\* handle_connection: stream.read(&mut buf) returned Err(e): it is printed, and
\* handle_connection goes on to return Ok(()).
ReadErr(w, c) ==
    /\ conn' = [conn EXCEPT ![c].rd = "err", ![c].reads = @ + 1, ![c].hres = "Ok"]
    /\ wpc' = [wpc EXCEPT ![w] = "ret"]
    /\ UNCHANGED <<wjob, mutex, poisoned, children>>

\* handle_connection: stream.read(&mut buf) blocks until bytes have arrived or the
\* peer has gone.  One read returns what has arrived so far: any non-empty prefix of
\* what the client wrote; Ok(0) at the end of a stream nothing was written on; an
\* error when the connection was reset.
Read(w) ==
    /\ wpc[w] = "read"
    /\ \/ \E k \in 1..Len(conn[wjob[w]].sent) :
            ReadOk(w, wjob[w], SubSeq(conn[wjob[w]].sent, 1, k))
       \/ /\ conn[wjob[w]].cli = "gone"
          /\ conn[wjob[w]].sent = <<>>
          /\ ReadOk(w, wjob[w], <<>>)
       \/ /\ conn[wjob[w]].cli = "gone"
          /\ ReadErr(w, wjob[w])
    /\ UNCHANGED <<backlog, chan>>
    /\ UNCHANGED <<clientVars, codecVars, ownerVars>>

\* What the stream holds after stream.write_all(b"Your program is running ok.")
WriteAllTwice(out) == out \o <<Response, Response>>

WriteAll(out) == Append(out, Response)

\* handle_connection after the response is written: the `if let Ok(bytes)` block
\* ends and the function returns Ok(()); it has no loop.
AfterResponseReadAgain == "read"

AfterResponse == "ret"

\* handle_connection: stream.write_all(..).map_err(..)?, which can fail once the
\* peer has gone; a failed write counts as no message written.
Write(w) ==
    /\ wpc[w] = "write"
    /\ \/ /\ conn' = [conn EXCEPT ![wjob[w]].out = WriteAll(@),
                                  ![wjob[w]].hres = "Ok"]
          /\ wpc' = [wpc EXCEPT ![w] = AfterResponse]
       \/ /\ conn[wjob[w]].cli = "gone"
          /\ conn' = [conn EXCEPT ![wjob[w]].hres = "ErrWrite"]
          /\ wpc' = [wpc EXCEPT ![w] = "ret"]
    /\ UNCHANGED <<backlog, chan, mutex, poisoned, wjob, children>>
    /\ UNCHANGED <<clientVars, codecVars, ownerVars>>

\* What becomes of the daemon's end of a connection when handle_connection
\* returns: `stream` is a parameter the function owns, so it is dropped there.
StreamKept == "queued"

StreamDropped == "closed"

\* handle_connection returns: the stream it owns is dropped, which closes the
\* connection; run's closure discards the Result; the loop's body ends, which
\* drops the guard.
Finish(w) ==
    /\ wpc[w] = "ret"
    /\ conn' = [conn EXCEPT ![wjob[w]].srv = StreamDropped]
    /\ wpc' = [wpc EXCEPT ![w] = "lock"]
    /\ wjob' = [wjob EXCEPT ![w] = 0]
    /\ mutex' = 0
    /\ UNCHANGED <<backlog, chan, poisoned, children>>
    /\ UNCHANGED <<clientVars, codecVars, ownerVars>>

ClientStep(c) ==
    \/ Connect(c)
    \/ \E m \in WireInputs : Send(c, m)
    \/ Leave(c)

WorkerStep(w) ==
    \/ Lock(w)
    \/ Recv(w)
    \/ Read(w)
    \/ Write(w)
    \/ Finish(w)

DaemonNext ==
    \/ \E c \in Conns : ClientStep(c)
    \/ Accept
    \/ \E w \in Workers : WorkerStep(w)

(***************************************************************************)
(* The specifications                                                      *)
(***************************************************************************)

Init == ClientIdle /\ CodecIdle /\ DaemonInit

Next == DaemonNext

Spec == Init /\ [][Next]_vars

InitClient == ClientInit /\ CodecIdle /\ DaemonInit

NextClient == ClientNext

SpecClient == InitClient /\ [][NextClient]_vars

InitCodec == ClientIdle /\ CodecInit /\ DaemonInit

NextCodec == CodecNext

SpecCodec == InitCodec /\ [][NextCodec]_vars

\* A client's first move on a connection it opened: it writes, or it goes.
FirstMove(c) ==
    /\ conn[c].sent = <<>>
    /\ \/ \E m \in WireInputs : Send(c, m)
       \/ Leave(c)

\* The threads of the daemon are scheduled, and a client that has connected does
\* not stay silent for ever: client.rs writes its message, or drops the stream,
\* right after connecting.
Fairness ==
    /\ WF_vars(Accept)
    /\ \A w \in Workers : WF_vars(WorkerStep(w))
    /\ \A c \in Conns : WF_vars(FirstMove(c))

LiveSpec == Init /\ [][Next]_vars /\ Fairness

(***************************************************************************)
(* The parser's properties, under SpecClient                               *)
(***************************************************************************)

\* res holds try_from's Result for the line in args.
Parsed == res # NoResult

\* C1: Command::try_from on the empty token sequence (a blank line) returns
\* Err(ParsingError::EmptyCommand).
C1_EmptyLine ==
    (Parsed /\ Len(args) = 0) => res = Err(PErr("EmptyCommand", ""))

C1_Witness == Parsed /\ Len(args) = 0 /\ res.err.kind = "EmptyCommand"

\* C2: when the first token is none of the eleven verbs, try_from returns
\* Err(UnknownCommand(t)) with t the first token as it is, whatever follows it.
C2_UnknownCommand ==
    (Parsed /\ Len(args) >= 1 /\ args[1] \notin Verbs)
        => res = Err(PErr("UnknownCommand", args[1]))

C2_Witness ==
    /\ Parsed
    /\ args = <<"addd", "cat", "start">>
    /\ res.err = PErr("UnknownCommand", "addd")

\* C3: exit and reread alone give Ok(Exit) and Ok(ReRead); followed by at least
\* one more token they give Err(UnexpectedArguments).
C3_ZeroArgs ==
    (Parsed /\ Len(args) >= 1 /\ args[1] \in {"exit", "reread"})
        => IF Len(args) = 1
           THEN res = Ok(Cmd(IF args[1] = "exit" THEN "Exit" ELSE "ReRead", <<>>))
           ELSE res = Err(PErr("UnexpectedArguments", ""))

C3_Witness ==
    /\ Parsed
    /\ args = <<"reread", "cat">>
    /\ res.err.kind = "UnexpectedArguments"

\* The variant each verb that requires targets stands for.
RequiresTargets ==
    [add |-> "Add", clear |-> "Clear", remove |-> "Remove", restart |-> "Restart",
     start |-> "Start", stop |-> "Stop", update |-> "Update"]

\* C4: add, clear, remove, restart, start, stop, update alone give
\* Err(MissingArguments); followed by at least one target they give Ok of the
\* matching variant.
C4_MultipleArgs ==
    (Parsed /\ Len(args) >= 1 /\ args[1] \in DOMAIN RequiresTargets)
        => IF Len(args) = 1
           THEN res = Err(PErr("MissingArguments", ""))
           ELSE res.tag = "Ok" /\ res.cmd.variant = RequiresTargets[args[1]]

C4_Witness ==
    /\ Parsed
    /\ args = <<"stop">>
    /\ res.err.kind = "MissingArguments"

\* C5: pid and status give Ok(Pid(ts)) and Ok(Status(ts)) whatever the number of
\* tokens that follow, with ts empty when none does; never MissingArguments nor
\* UnexpectedArguments.
C5_Unspecified ==
    (Parsed /\ Len(args) >= 1 /\ args[1] \in {"pid", "status"})
        => /\ res.tag = "Ok"
           /\ res.cmd.variant = (IF args[1] = "pid" THEN "Pid" ELSE "Status")
           /\ Len(res.cmd.payload) = Len(args) - 1
           /\ res.err = NoErr

C5_Witness ==
    /\ Parsed
    /\ args = <<"status">>
    /\ res = Ok(Cmd("Status", <<>>))

(***************************************************************************)
(* The codec's properties, under SpecCodec                                 *)
(***************************************************************************)

\* C6: to_string followed by from_str gives back an equal Command, for every
\* variant and every target list, the empty one included.
C6_RoundTrip == (codecPc = "end") => dec = Ok(cmd)

C6_Witness ==
    /\ codecPc = "end"
    /\ cmd = Cmd("Start", <<>>)
    /\ dec.tag = "Ok"

\* Whether message w is a JSON object with a "type" key holding the variant's name
\* and, for a variant with targets, a "targets" key holding the list.
HasTypeAndTargets(w, c) ==
    /\ Len(w) >= 5
    /\ w[1] = P("{")
    /\ w[Len(w)] = P("}")
    /\ \E i \in 2..(Len(w) - 2) :
          w[i] = S("type") /\ w[i + 1] = P(":") /\ w[i + 2] = S(c.variant)
    /\ c.variant \in TargetVariants =>
          \E j \in 2..(Len(w) - 2) :
             /\ w[j] = S("targets")
             /\ w[j + 1] = P(":")
             /\ j + 1 + Len(ArrayOf(c.payload)) < Len(w)
             /\ SubSeq(w, j + 2, j + 1 + Len(ArrayOf(c.payload))) = ArrayOf(c.payload)

\* C7 as stated: every Command's wire form is {"type": "<Name>", "targets": [...]},
\* Exit and ReRead carrying no targets.
C7_TypeTargetsForm ==
    (codecPc \in {"de", "end"}) => HasTypeAndTargets(wire, cmd)

\* C7, amended: a variant with targets is written as the one-key object
\* {"<Name>": [targets...]}, the key being the variant's name; Exit and ReRead are
\* written as the bare JSON string "<Name>".
C7_ExternallyTagged ==
    (codecPc \in {"de", "end"}) =>
        IF cmd.variant \in UnitVariants
        THEN wire = <<S(cmd.variant)>>
        ELSE /\ Len(wire) = (IF Len(cmd.payload) = 0 THEN 6 ELSE 5 + 2 * Len(cmd.payload))
             /\ wire[1] = P("{")
             /\ wire[2] = S(cmd.variant)
             /\ wire[3] = P(":")
             /\ wire[4] = P("[")
             /\ \A i \in 1..Len(cmd.payload) : wire[3 + 2 * i] = S(cmd.payload[i])
             /\ \A i \in 1..(Len(cmd.payload) - 1) : wire[4 + 2 * i] = P(",")
             /\ wire[Len(wire) - 1] = P("]")
             /\ wire[Len(wire)] = P("}")

C7_Witness ==
    /\ codecPc = "de"
    /\ cmd = Cmd("Stop", <<"cat", "nginx">>)
    /\ wire = <<P("{"), S("Stop"), P(":"), P("["), S("cat"), P(","), S("nginx"),
                P("]"), P("}")>>

(***************************************************************************)
(* The daemon's properties, under Spec and LiveSpec                        *)
(***************************************************************************)

\* The daemon read from connection c and the bytes decode to a Command.
DecodedOk(c) == conn[c].rd = "data" /\ FromStr(conn[c].got).tag = "Ok"

\* The daemon read from connection c and the bytes do not decode to a Command.
DecodeFailed(c) == conn[c].rd \in {"data", "eof"} /\ FromStr(conn[c].got).tag # "Ok"

\* The worker running connection c's handler is about to return from it.
Returning(c) == \E w \in Workers : wjob[w] = c /\ wpc[w] = "ret"

WorkersRunning ==
    /\ ~poisoned
    /\ \A w \in Workers : wpc[w] \in {"lock", "recv", "read", "write", "ret"}

\* C9: a decode failure or a failed read on one connection never stops the daemon:
\* every worker keeps running, every connection opened afterwards is still read,
\* and a command that decodes is still answered (unless its client has gone).
C9_DaemonSurvivesBadRequests ==
    /\ []WorkersRunning
    /\ \A c \in Conns :
          /\ (conn[c].srv = "backlog") ~> (conn[c].rd # "-")
          /\ DecodedOk(c) ~> (conn[c].out = <<Response>> \/ conn[c].hres = "ErrWrite")

C9_Witness ==
    /\ DecodeFailed(1)
    /\ conn[1].srv = "closed"
    /\ DecodedOk(2)
    /\ conn[2].out = <<Response>>
    /\ conn[2].srv = "closed"
    /\ WorkersRunning

\* C10 as stated: on every connection where a Command is decoded the daemon writes
\* exactly one response and then closes; never more than one response on a
\* connection, and none before a request has been read.
C10_ExactlyOneResponse ==
    \A c \in Conns :
        /\ Len(conn[c].out) <= 1
        /\ conn[c].out # <<>> => conn[c].rd = "data"
        /\ (DecodedOk(c) /\ conn[c].srv = "closed") => Len(conn[c].out) = 1

\* C10, amended: on every connection where a Command is decoded the daemon calls
\* write_all once and then closes: exactly one response is written when that write
\* succeeds and none when it fails, which happens only once the client has gone.
\* Never more than one response on a connection, and none before a request has
\* been read and decoded.
C10_OneResponseUnlessWriteFails ==
    \A c \in Conns :
        /\ Len(conn[c].out) <= 1
        /\ conn[c].out # <<>> => DecodedOk(c)
        /\ (DecodedOk(c) /\ conn[c].hres # "-") => (conn[c].srv = "closed" \/ Returning(c))
        /\ (DecodedOk(c) /\ conn[c].srv = "closed") =>
              \/ conn[c].out = <<Response>> /\ conn[c].hres = "Ok"
              \/ conn[c].out = <<>> /\ conn[c].hres = "ErrWrite" /\ conn[c].cli = "gone"

C10_Witness ==
    \E c \in Conns :
        /\ DecodedOk(c)
        /\ conn[c].srv = "closed"
        /\ conn[c].cli = "open"
        /\ conn[c].out = <<Response>>

(***************************************************************************)
(* Connections and the pool, under Spec and LiveSpec                       *)
(***************************************************************************)

\* C11: one command per accepted connection: the daemon calls stream.read at most
\* once on each connection it accepted, so it takes at most one command from it,
\* and what a client wrote on a connection is never more than one message: every
\* command travels on a connection of its own.
C11_OneCommandPerConnection ==
    \A c \in Conns :
        /\ conn[c].reads <= 1
        /\ conn[c].sent \in WireInputs \cup {<<>>}
        /\ conn[c].rd # "-" <=> conn[c].reads = 1

C11_Witness ==
    /\ DecodedOk(1)
    /\ conn[1].srv = "closed"
    /\ conn[1].reads = 1
    /\ DecodedOk(2)
    /\ conn[2].got # conn[1].got
    /\ conn[2].srv = "closed"
    /\ conn[2].reads = 1

\* The workers that are inside job(), which is handle_connection on a connection.
Executing == {w \in DOMAIN wpc : wpc[w] \in {"read", "write", "ret"}}

C13_LockFreeWhileHandling ==
    \A w \in Executing : mutex # w

\* What the code does instead: the guard lives to the end of the loop's body, so
\* the handlers run one after the other.
OneHandlerAtATime ==
    /\ Cardinality(Executing) <= 1
    /\ \A w \in Executing : mutex = w

\* Connection c's job is in the pool's channel.
InChannel(c) == \E i \in 1..Len(chan) : chan[i] = NewJob(c)

DecodedExit(c) == DecodedOk(c) /\ FromStr(conn[c].got).cmd.variant = "Exit"

\* ... and its handler has returned.
ExitHandled(c) == DecodedExit(c) /\ conn[c].srv = "closed"

NoChildProcess == \A p \in Programs : children[p] = 0

\* The daemon decoded, on connection c, variant v with program p among its targets
\* and the handler has returned.
Handled(c, v, p) ==
    /\ DecodedOk(c)
    /\ conn[c].srv = "closed"
    /\ FromStr(conn[c].got).cmd = Cmd(v, <<p>>)

HandlerInputs ==
    WireInputs \cup
    { ToString(Cmd("Start", <<"missing_prog">>)),
      ToString(Cmd("Status", <<>>)),
      ToString(Cmd("Start", <<"cat", "missing_prog">>)),
      <<P("{"), S("Start"), P(":"), P("["), P("]"), P("}")>> }

\* Config::parse: `programs` is an Option of a map; the file may configure any
\* of the programs, or none.
Registries == {[p \in R |-> 0] : R \in SUBSET Programs}

InitHandler ==
    /\ ClientIdle
    /\ CodecIdle
    /\ owner = OwnerInDaemon
    /\ runs = <<>>
    /\ backlog = <<>>
    /\ chan = <<>>
    /\ mutex = 0
    /\ poisoned = FALSE
    /\ wpc = [w \in Workers |-> "lock"]
    /\ wjob = [w \in Workers |-> 0]
    /\ conn = [c \in Conns |-> NoConn]
    /\ children \in Registries

NextHandler ==
    \/ Connect(1)
    \/ \E m \in HandlerInputs : Send(1, m)
    \/ Leave(1)
    \/ Accept
    \/ \E w \in Workers : WorkerStep(w)

SpecHandler == InitHandler /\ [][NextHandler]_vars

\* The daemon decoded command k on connection c, the handler has returned and the
\* client was there to be answered.
Answered(c, k) ==
    /\ DecodedOk(c)
    /\ FromStr(conn[c].got).cmd = k
    /\ conn[c].srv = "closed"
    /\ conn[c].hres = "Ok"

\* The error a lookup of an unknown program gives, as a response.
UnknownProgram(name) == "UnknownProgram(" \o name \o ")"

\* C21 as stated: a start that names a program which is not in the registry is
\* answered with UnknownProgram(name); it creates no instance and changes no state.
C21_UnknownProgramReported ==
    \A c \in Conns :
        (Answered(c, Cmd("Start", <<"missing_prog">>)) /\ "missing_prog" \notin DOMAIN children)
            => /\ conn[c].out = <<UnknownProgram("missing_prog")>>
               /\ \A p \in DOMAIN children : children[p] = 0

\* A status result set with no entry, as a response.
EmptyResultSet == "[]"

\* C22 as stated: a status without targets ("all") against an empty registry is
\* answered with an empty result set, not with an error.
C22_StatusOfEmptyRegistry ==
    \A c \in Conns :
        (Answered(c, Cmd("Status", <<>>)) /\ DOMAIN children = {})
            => conn[c].out = <<EmptyResultSet>>

\* The outcome of a start for one target, as a part of a response.
StartOutcome(p) ==
    IF p \in DOMAIN children THEN p \o ": started" ELSE UnknownProgram(p)

\* C23 as stated: in a command with several targets an error on one target does
\* not abort the others: every other target is processed and the response
\* reports one outcome per target.
C23_OutcomePerTarget ==
    \A c \in Conns :
        (Answered(c, Cmd("Start", <<"cat", "missing_prog">>)) /\ "cat" \in DOMAIN children)
            => /\ conn[c].out = <<StartOutcome("cat"), StartOutcome("missing_prog")>>
               /\ children["cat"] = 1

(***************************************************************************)
(* The parser's targets, under SpecClient                                  *)
(***************************************************************************)

\* C27: when try_from succeeds on a verb that carries targets, the targets of the
\* Command are exactly the tokens after the verb, in their order and with
\* duplicates kept; and whether a line is accepted depends only on its verb and on
\* whether tokens follow it, never on what those tokens are.
C27_TargetsAreTheTokensAfterTheVerb ==
    (Parsed /\ Len(args) >= 1) =>
        /\ (res.tag = "Ok" /\ res.cmd.variant \in TargetVariants) =>
              /\ Len(res.cmd.payload) = Len(args) - 1
              /\ \A i \in 1..(Len(args) - 1) : res.cmd.payload[i] = args[i + 1]
        /\ res.tag = TryFrom(IF Len(args) = 1 THEN <<args[1]>> ELSE <<args[1], "cat">>).tag

C27_Witness ==
    /\ Parsed
    /\ args = <<"start", "nginx", "nginx">>
    /\ res = Ok(Cmd("Start", <<"nginx", "nginx">>))

(***************************************************************************)
(* The ThreadPool on its own (threadpool.rs): a thread builds a pool of    *)
(* some size, hands it jobs that return, and drops it.  Jobs are numbered  *)
(* in the order of the calls of execute.                                   *)
(***************************************************************************)

Jobs == 1..MaxJobs

\* ThreadPool::new: assert!(size > 0)
SizeAcceptedAny(size) == TRUE

SizeAccepted(size) == size > 0

\* Drop: `for _ in &self.workers { self.sender.send(Message::Terminate) }`, the
\* number of Terminate messages the first loop sends.
TerminatesOneLess(ws) == Cardinality(ws) - 1

Terminates(ws) == Cardinality(ws)

PoolInit ==
    /\ owner \in {[pc |-> "new", size |-> n, submitted |-> 0, terms |-> 0, joined |-> 0] :
                     n \in 0..MaxSize}
    /\ runs = [j \in Jobs |-> 0]
    /\ backlog = <<>>
    /\ chan = <<>>
    /\ mutex = 0
    /\ poisoned = FALSE
    /\ wpc = <<>>
    /\ wjob = <<>>
    /\ conn = [c \in Conns |-> NoConn]
    /\ children = [p \in Programs |-> 0]

\* ThreadPool::new(size): the assertion, then one Worker::new per id, each of
\* which spawns its thread.
PoolNew ==
    /\ owner.pc = "new"
    /\ IF SizeAccepted(owner.size)
       THEN /\ wpc' = [w \in 1..owner.size |-> "lock"]
            /\ wjob' = [w \in 1..owner.size |-> 0]
            /\ owner' = [owner EXCEPT !.pc = "live"]
       ELSE /\ owner' = [owner EXCEPT !.pc = "panicked"]
            /\ UNCHANGED <<wpc, wjob>>
    /\ UNCHANGED <<runs, backlog, chan, mutex, poisoned, conn, children>>
    /\ UNCHANGED <<clientVars, codecVars>>

\* ThreadPool::execute(f): the job is sent; when send fails (no worker holds the
\* receiver any more) the job is dropped.
PoolSubmit ==
    /\ owner.pc = "live"
    /\ owner.submitted < MaxJobs
    /\ owner' = [owner EXCEPT !.submitted = @ + 1]
    /\ chan' = IF \E w \in DOMAIN wpc : wpc[w] \notin {"terminated", "panicked"}
               THEN PoolExecute(chan, owner.submitted + 1)
               ELSE chan
    /\ UNCHANGED <<runs, backlog, mutex, poisoned, wpc, wjob, conn, children>>
    /\ UNCHANGED <<clientVars, codecVars>>

\* The pool goes out of scope: Drop::drop begins.
PoolDrop ==
    /\ owner.pc = "live"
    /\ owner' = [owner EXCEPT !.pc = IF Terminates(DOMAIN wpc) > 0
                                      THEN "drop_send" ELSE "drop_join"]
    /\ UNCHANGED <<runs, backlog, chan, mutex, poisoned, wpc, wjob, conn, children>>
    /\ UNCHANGED <<clientVars, codecVars>>

\* Drop, first loop: one self.sender.send(Message::Terminate)
PoolSendTerminate ==
    /\ owner.pc = "drop_send"
    /\ chan' = Append(chan, Terminate)
    /\ owner' = [owner EXCEPT !.terms = @ + 1,
                              !.pc = IF owner.terms + 1 >= Terminates(DOMAIN wpc)
                                     THEN "drop_join" ELSE "drop_send"]
    /\ UNCHANGED <<runs, backlog, mutex, poisoned, wpc, wjob, conn, children>>
    /\ UNCHANGED <<clientVars, codecVars>>

\* Drop, second loop: thread.join() on the next worker returns once its thread
\* has ended; after the last one drop returns.
PoolJoin ==
    /\ owner.pc = "drop_join"
    /\ wpc[owner.joined + 1] \in {"terminated", "panicked"}
    /\ owner' = [owner EXCEPT !.joined = @ + 1,
                              !.pc = IF owner.joined + 1 = owner.size
                                     THEN "dropped" ELSE "drop_join"]
    /\ UNCHANGED <<runs, backlog, chan, mutex, poisoned, wpc, wjob, conn, children>>
    /\ UNCHANGED <<clientVars, codecVars>>

\* Worker::new: job() runs and returns; the loop's body ends, which drops the
\* guard.
JobRuns(w) ==
    /\ wpc[w] = "read"
    /\ runs' = [runs EXCEPT ![wjob[w]] = @ + 1]
    /\ wpc' = [wpc EXCEPT ![w] = "lock"]
    /\ wjob' = [wjob EXCEPT ![w] = 0]
    /\ mutex' = 0
    /\ UNCHANGED <<owner, backlog, chan, poisoned, conn, children>>
    /\ UNCHANGED <<clientVars, codecVars>>

\* A step of the thread Worker::new spawned for id w, once it exists.
PoolWorkerStep(w) ==
    /\ w \in DOMAIN wpc
    /\ \/ Lock(w)
       \/ Recv(w)
       \/ JobRuns(w)

PoolNext ==
    \/ PoolNew
    \/ PoolSubmit
    \/ PoolDrop
    \/ PoolSendTerminate
    \/ PoolJoin
    \/ \E w \in 1..MaxSize : w \in DOMAIN wpc /\ Lock(w)
    \/ \E w \in 1..MaxSize : w \in DOMAIN wpc /\ Recv(w)
    \/ \E w \in 1..MaxSize : w \in DOMAIN wpc /\ JobRuns(w)

InitPool == ClientIdle /\ CodecIdle /\ PoolInit

NextPool == PoolNext

SpecPool == InitPool /\ [][NextPool]_vars

\* The threads are scheduled: every worker's thread, and the owner's once it is
\* inside new or drop.  Whether and when the owner calls execute or drops the
\* pool is up to it.
PoolFairness ==
    /\ WF_vars(PoolNew)
    /\ WF_vars(PoolSendTerminate)
    /\ WF_vars(PoolJoin)
    /\ \A w \in 1..MaxSize : WF_vars(PoolWorkerStep(w))

LivePool == InitPool /\ [][NextPool]_vars /\ PoolFairness

(***************************************************************************)
(* The pool's properties, under SpecPool and LivePool                      *)
(***************************************************************************)

\* C26: ThreadPool::new(size) with size >= 1 creates exactly size workers, which
\* all take their jobs from the one channel; with size = 0 it panics and builds no
\* pool.
C26_NewCreatesSizeWorkers ==
    owner.pc # "new" =>
        IF owner.size >= 1
        THEN /\ owner.pc # "panicked"
             /\ DOMAIN wpc = 1..owner.size
        ELSE /\ owner.pc = "panicked"
             /\ DOMAIN wpc = {}
             /\ chan = <<>>

C26_Witness ==
    /\ owner.size = 2
    /\ owner.submitted = 2
    /\ wpc[2] = "read"
    /\ wjob[2] = 2
    /\ runs[1] = 1

\* How many NewJob messages for job j wait in the channel.
Queued(j) == Cardinality({i \in 1..Len(chan) : chan[i] = NewJob(j)})

\* How many workers are inside job j.
Running(j) == Cardinality({w \in DOMAIN wpc : wpc[w] = "read" /\ wjob[w] = j})

\* C28: every job handed to execute while the pool is alive is executed exactly
\* once, by exactly one worker: at any time it waits in the channel once, or one
\* worker is running it, or it has been run once; and it does get run.
C28_EachJobRunsOnce ==
    /\ [](\A j \in Jobs :
            IF j <= owner.submitted
            THEN Queued(j) + Running(j) + runs[j] = 1
            ELSE Queued(j) + Running(j) + runs[j] = 0)
    /\ \A j \in Jobs : (j <= owner.submitted) ~> (runs[j] = 1)

C28_Witness ==
    /\ owner.pc = "live"
    /\ owner.size = 3
    /\ owner.submitted = 3
    /\ \A j \in 1..3 : runs[j] = 1

\* The Terminate messages that wait in the channel.
TerminatesQueued == Cardinality({i \in 1..Len(chan) : chan[i] = Terminate})

\* The workers whose thread has ended on a Terminate.
Terminated == {w \in DOMAIN wpc : wpc[w] = "terminated"}

\* C29: dropping the pool terminates.  Drop sends one Terminate per worker; each
\* Terminate is consumed by one worker, which exits and takes no job afterwards;
\* when drop returns every worker has exited and every job handed in before the
\* drop has been run.
C29_DropTerminates ==
    /\ [](/\ TerminatesQueued + Cardinality(Terminated) = owner.terms
          /\ owner.pc \in {"drop_join", "dropped"} => owner.terms = owner.size
          /\ owner.pc = "dropped" =>
                /\ Terminated = 1..owner.size
                /\ chan = <<>>
                /\ \A j \in Jobs : j <= owner.submitted => runs[j] = 1)
    /\ [][\A w \in DOMAIN wpc : wpc[w] = "terminated" => wpc'[w] = "terminated"]_vars
    /\ (owner.pc \in {"drop_send", "drop_join"}) ~> (owner.pc = "dropped")

C29_Witness ==
    /\ owner.pc = "dropped"
    /\ owner.size = 3
    /\ owner.submitted = 3
    /\ owner.terms = 3
    /\ owner.joined = 3

(***************************************************************************)
(* Silent connections, under Spec                                          *)
(***************************************************************************)

\* The connections whose client has connected, written nothing and not gone.
IdleConns == {c \in Conns : conn[c].cli = "open" /\ conn[c].sent = <<>>}

\* Connection c carries a command the daemon has not read yet.
Waiting(c) ==
    /\ conn[c].sent # <<>>
    /\ conn[c].srv = "queued"
    /\ conn[c].rd = "-"

\* C30 as stated: a client that connects and then stays silent cannot keep the
\* commands on other connections from being answered while fewer than NUM_THREADS
\* connections are silent: whenever a command waits, some worker of the daemon
\* can take a step.
C30_IdleClientBlocksNobody ==
    (Cardinality(IdleConns) < NUM_THREADS /\ \E c \in Conns : Waiting(c))
        => ENABLED (\E w \in Workers : WorkerStep(w))

(***************************************************************************)
(* The client's wait for the response, under LiveSpec                      *)
(***************************************************************************)

\* The client of connection c has written its message (client.rs: stream.write).
Wrote(c) == conn[c].sent # <<>>

\* The daemon's end of connection c is closed: the client's read_to_string returns.
WaitOver(c) == conn[c].srv = "closed"

ReadSome(c) == conn[c].rd = "data"

\* C32 as stated: every command a client serializes and writes is decoded by the
\* daemon into an equal Command, also when the message is longer than the read
\* buffer or arrives in more than one read.
C32_WrittenCommandIsDecoded ==
    \A c \in Conns : \A k \in Commands :
        (conn[c].sent = ToString(k) /\ ReadSome(c)) => FromStr(conn[c].got) = Ok(k)

(***************************************************************************)
(* The ThreadPool with jobs that may panic: SpecPanic and LivePanic        *)
(***************************************************************************)

\* Worker::new: job() panics.  The worker's thread unwinds and ends; `lock` is
\* dropped during the unwinding, which poisons the Mutex and unlocks it.
JobPanics(w) ==
    /\ wpc[w] = "read"
    /\ wpc' = [wpc EXCEPT ![w] = "panicked"]
    /\ wjob' = [wjob EXCEPT ![w] = 0]
    /\ mutex' = 0
    /\ poisoned' = TRUE
    /\ UNCHANGED <<owner, runs, backlog, chan, conn, children>>
    /\ UNCHANGED <<clientVars, codecVars>>

\* A step of worker w's thread when its job may return or panic.
PanicWorkerStep(w) ==
    /\ w \in DOMAIN wpc
    /\ \/ Lock(w)
       \/ Recv(w)
       \/ JobRuns(w)
       \/ JobPanics(w)

NextPanic ==
    \/ PoolNext
    \/ \E w \in 1..MaxSize : w \in DOMAIN wpc /\ JobPanics(w)

SpecPanic == InitPool /\ [][NextPanic]_vars

PanicFairness ==
    /\ WF_vars(PoolNew)
    /\ WF_vars(PoolSendTerminate)
    /\ WF_vars(PoolJoin)
    /\ \A w \in 1..MaxSize : WF_vars(PanicWorkerStep(w))

LivePanic == InitPool /\ [][NextPanic]_vars /\ PanicFairness

\* C33 as stated: a panic inside one job does not disable the pool: a job that is
\* submitted after a job has panicked is still received and started by one of the
\* remaining workers, and a pool that is dropped after a job has panicked is
\* dropped to the end: drop returns.
C33_PanicDoesNotDisablePool ==
    /\ \A j \in Jobs :
          [](poisoned /\ owner.submitted < j => [](Queued(j) > 0 => <>(Running(j) > 0)))
    /\ [](poisoned /\ owner.pc = "live" =>
              [](owner.pc = "drop_send" => <>(owner.pc = "dropped")))

(***************************************************************************)
(* The commands the daemon accepts from the wire, under SpecHandler        *)
(***************************************************************************)

\* The variants the prompt's parser builds only with at least one target.
NeedATarget == {RequiresTargets[v] : v \in DOMAIN RequiresTargets}

\* C34 as stated: every Command the daemon accepts from the wire obeys the arity
\* rules of the prompt's parser: a decoded Add, Clear, Remove, Restart, Start, Stop
\* or Update carries at least one target.
C34_WireObeysArity ==
    \A c \in Conns :
        (DecodedOk(c) /\ FromStr(conn[c].got).cmd.variant \in NeedATarget)
            => Len(FromStr(conn[c].got).cmd.payload) >= 1

(***************************************************************************)
(* What the client writes to the daemon, under SpecClient                  *)
(***************************************************************************)

Started(j) == Running(j) > 0 \/ runs[j] > 0

\* C36: jobs are started in submission order: when execute(a) has returned before
\* execute(b) is called (job a has the smaller number), no worker starts b before
\* some worker has started a.
C36_StartedInSubmissionOrder ==
    \A a, b \in Jobs : (a < b /\ Started(b)) => Started(a)

\* Job 2 runs after job 1 has run, while job 3 waits in the channel.
C36_Witness ==
    /\ runs[1] = 1
    /\ Running(2) = 1
    /\ Queued(3) = 1

(***************************************************************************)
(* What handling a command leaves behind, under Spec                       *)
(***************************************************************************)

\* The command decoded on connection c was answered: write_all succeeded.
Responded(c) == DecodedOk(c) /\ conn[c].hres = "Ok"

MainZeroArg(a, name) ==
    IF Len(a) = 1 THEN Ok(Cmd(name, <<>>)) ELSE Err(PErr("UnexpectedArguments", ""))

\* main.rs: create_command!(args, name, one_arg); the variant holds args[1] alone.
MainOneArg(a, name) ==
    IF Len(a) = 2
    THEN Ok(Cmd(name, <<a[2]>>))
    ELSE IF Len(a) < 2
         THEN Err(PErr("MissingArguments", ""))
         ELSE Err(PErr("UnexpectedArguments", ""))

\* main.rs: create_command!(args, name, multiple_args)
MainMultipleArgs(a, name) ==
    IF Len(a) > 1 THEN Ok(Cmd(name, Rest(a))) ELSE Err(PErr("MissingArguments", ""))

\* main.rs: other => Err(UnknownCommand(format!("Unknown command: {}", other)))
MainOtherArm(other) == Err(PErr("UnknownCommand", "Unknown command: " \o other))

\* main.rs: the arm of try_from's match a first token selects; it has no arm
\* for "reread".
MainMatchArm(a, command) ==
    CASE command = "add" -> MainMultipleArgs(a, "Add")
      [] command = "clear" -> MainMultipleArgs(a, "Clear")
      [] command = "exit" -> MainZeroArg(a, "Exit")
      [] command = "pid" -> MainMultipleArgs(a, "PID")
      [] command = "remove" -> MainMultipleArgs(a, "Remove")
      [] command = "restart" -> MainMultipleArgs(a, "Restart")
      [] command = "start" -> MainMultipleArgs(a, "Start")
      [] command = "status" -> MainOneArg(a, "Status")
      [] command = "stop" -> MainMultipleArgs(a, "Stop")
      [] command = "update" -> MainMultipleArgs(a, "Update")
      [] OTHER -> MainOtherArm(command)

\* main.rs: impl TryFrom<&'a [&'a str]> for Command<'a>
MainTryFrom(a) == IF Len(a) = 0 THEN Err(PErr("EmptyCommand", "")) ELSE MainMatchArm(a, a[1])

\* main.rs, main: let cmd = Command::try_from(&args[..]);
MainParse ==
    /\ cliPc = "parse"
    /\ res' = MainTryFrom(args)
    /\ cliPc' = "match"
    /\ UNCHANGED <<args, cliWire>>
    /\ UNCHANGED <<codecVars, daemonVars>>

\* main.rs, main: match cmd { Ok(Command::Exit) => break, Ok(_) => {}, Err(e) => e.display() }
MainMatch ==
    /\ cliPc = "match"
    /\ cliPc' = IF res.tag = "Ok" /\ res.cmd.variant = "Exit" THEN "done" ELSE "history"
    /\ UNCHANGED <<args, res, cliWire>>
    /\ UNCHANGED <<codecVars, daemonVars>>

\* main.rs, main: the loop; read_line and history.push are those of client.rs.
NextMain ==
    \/ ReadLine
    \/ ReadLineFails
    \/ MainParse
    \/ MainMatch
    \/ History

InitMain == ClientInit /\ CodecIdle /\ DaemonInit

SpecMain == InitMain /\ [][NextMain]_vars

\* The verb a variant's name stands for, in either enum.
VerbOf ==
    [Add |-> "add", Clear |-> "clear", Exit |-> "exit", PID |-> "pid", Pid |-> "pid",
     Remove |-> "remove", ReRead |-> "reread", Restart |-> "restart",
     Start |-> "start", Status |-> "status", Stop |-> "stop", Update |-> "update"]

\* Two results agree: the same verb with the same targets, or the same kind of
\* error.
Agree(r, l) ==
    IF r.tag = "Ok" /\ l.tag = "Ok"
    THEN VerbOf[r.cmd.variant] = VerbOf[l.cmd.variant] /\ r.cmd.payload = l.cmd.payload
    ELSE r.tag = "Err" /\ l.tag = "Err" /\ r.err.kind = l.err.kind

\* C38 as stated: the two parsers agree: on every token sequence the parser of
\* main.rs and the parser of command.rs both accept it, as the same verb with the
\* same targets, or both reject it with the same kind of error; and `pid` and
\* `status` without targets are accepted by both.
C38_ParsersAgree ==
    Parsed =>
        /\ Agree(res, TryFrom(args))
        /\ args \in {<<"pid">>, <<"status">>} => (res.tag = "Ok" /\ TryFrom(args).tag = "Ok")

====
